---- MODULE Spec2Model ----
(***************************************************************************)
(* The snake game of src/src/main.rs as a state machine.                   *)
(*                                                                         *)
(* The program is a Bevy application.  Its state is the entity world (the  *)
(* components of every live entity), the resources SnakeSegments and       *)
(* LastTailPosition, the unread GrowthEvent / GameOverEvent messages and   *)
(* the commands that systems have queued but that are not applied yet      *)
(* (Commands are deferred: a spawn reserves the entity id at once, the     *)
(* entity and its components exist only after the next apply_deferred).    *)
(*                                                                         *)
(* One action per system.  A frame runs FixedUpdate (when the timers of    *)
(* main.rs:321-322 fire) and then Update (main.rs:314-317):                *)
(*   FixedUpdate: snake_movement and, on every second firing, food_spawner *)
(*                (500 ms and 1 s timers on the same fixed clock), in      *)
(*                either order: the tuple states no ordering; their        *)
(*                commands are applied when the schedule ends;             *)
(*   Update:      snake_movement_input, snake_eating, snake_growth and     *)
(*                game_over.  snake_movement is not a system of Update:    *)
(*                its system set is empty there, and the orderings         *)
(*                before(snake_movement) / after(snake_movement) pass      *)
(*                through it, so snake_movement_input runs before          *)
(*                snake_eating and before game_over.  snake_growth runs    *)
(*                after snake_eating, behind the apply_deferred sync point *)
(*                Bevy inserts after a system with Commands.  game_over is *)
(*                not ordered against snake_eating, the sync point or      *)
(*                snake_growth.  All commands still queued are applied     *)
(*                when the schedule ends.                                  *)
(* The virtual clock advances at most 250 ms per frame, so two frames in   *)
(* a row never both hold a movement tick (variable frame).                 *)
(***************************************************************************)
EXTENDS Integers, Sequences, FiniteSets, TLC

VARIABLES
    world,                \* live entities: id -> [kind, pos, dir]
    segments,             \* Res<SnakeSegments>: Vec<Entity>, head first
    last_tail_position,   \* Res<LastTailPosition>: << >> is None, <<p>> is Some(p)
    growth_events,        \* GrowthEvent messages snake_growth has not read
    game_over_events,     \* GameOverEvent messages game_over has not read
    commands,             \* queued, unapplied commands: [spawn, despawn]
    schedule,             \* the schedule that is running
    todo,                 \* systems of that schedule still to run this frame
    frame,                \* 0: this frame holds a movement tick, 1: it holds none
    food_due,             \* the 1 s timer fires with the next movement tick
    panicked,             \* an unwrap() on None has aborted the program
    keyboard_input,       \* Res<ButtonInput<KeyCode>> as SpecLatch fixes it (see there)
    \* history of the most recent movement tick, kept to state the properties
    pre,                  \* positions of the body before the move (segment_positions)
    raised,               \* which checks of that tick wrote a GameOverEvent
    resets,               \* resets performed since that tick
    eaten,                \* food entities despawned by snake_eating since that tick
    grown,                \* segments appended by snake_growth since that tick
    moves                 \* movement ticks since startup (counted up to MaxMoves)

vars == << world, segments, last_tail_position, growth_events, game_over_events,
           commands, schedule, todo, frame, food_due, panicked, keyboard_input,
           pre, raised, resets, eaten, grown, moves >>

history == << pre, raised, resets, eaten, grown, moves >>

(***************************************************************************)
(* Program constants and bounds                                            *)
(***************************************************************************)
ARENA_HEIGHT == 20
ARENA_WIDTH == 20

\* Side lengths of the arena that Spec explores (the program's is 20 x 20,
\* which SpecArena uses).
ArenaW == 5
ArenaH == 5
\* food_spawner draws no position once body length + food items reach MaxLen,
\* nor once MaxFood food items exist.
MaxLen == 5
MaxFood == 3
\* moves counts movement ticks up to MaxMoves.
MaxMoves == 6

Position(x, y) == [x |-> x, y |-> y]

\* The positions random() is let to produce (inside the arena only).
FoodCells == { Position(3, 4), Position(2, 4), Position(3, 6) }

Direction == { "Left", "Up", "Right", "Down" }

KeyCode == { "ArrowLeft", "ArrowRight", "ArrowDown", "ArrowUp" }

opposite(d) ==
    CASE d = "Left" -> "Right"
      [] d = "Right" -> "Left"
      [] d = "Up" -> "Down"
      [] d = "Down" -> "Up"

(***************************************************************************)
(* Entities and commands                                                   *)
(***************************************************************************)
Range(s) == { s[i] : i \in DOMAIN s }

NoEntities == [e \in {} |-> 0]

NoCommands == [spawn |-> NoEntities, despawn |-> {}]

\* The head carries SnakeHead, SnakeSegment, Position (spawn_snake); a
\* segment SnakeSegment and Position (spawn_segment); food Food and Position.
HeadBundle(p, d) == [kind |-> "SnakeHead", pos |-> p, dir |-> d]
SegmentBundle(p) == [kind |-> "SnakeSegment", pos |-> p, dir |-> "None"]
FoodBundle(p) == [kind |-> "Food", pos |-> p, dir |-> "None"]

WithSnakeHead(w) == { e \in DOMAIN w : w[e].kind = "SnakeHead" }
WithSnakeSegment(w) == { e \in DOMAIN w : w[e].kind \in {"SnakeHead", "SnakeSegment"} }
WithFood(w) == { e \in DOMAIN w : w[e].kind = "Food" }

\* commands.spawn(..).id(): an id no live or reserved entity has.
NewEntity(w, c) ==
    LET used == DOMAIN w \cup DOMAIN c.spawn
    IN  CHOOSE n \in 1..(Cardinality(used) + 1) :
            n \notin used /\ \A m \in 1..(n - 1) : m \in used

Spawn(c, e, bundle) == [c EXCEPT !.spawn = (e :> bundle) @@ @]

Despawn(c, es) == [c EXCEPT !.despawn = @ \cup es]

\* apply_deferred: despawns of entities that are gone are ignored (a warning).
Applied(w, c) ==
    LET kept == DOMAIN w \ c.despawn
    IN  [e \in kept \cup DOMAIN c.spawn |->
            IF e \in DOMAIN c.spawn THEN c.spawn[e] ELSE w[e]]

(***************************************************************************)
(* An Entity is an opaque handle: the program only stores ids and compares *)
(* them for equality.  Once the commands are applied no command refers to  *)
(* an id any more, and the model renames the live entities: the entities   *)
(* of SnakeSegments get 1..n in body order, the others follow ordered by   *)
(* their components.  States that differ only in the names of their        *)
(* entities are thereby one state.                                         *)
(***************************************************************************)
KindRank(k) == CASE k = "SnakeHead" -> 0 [] k = "SnakeSegment" -> 1 [] k = "Food" -> 2

DirRank(d) ==
    CASE d = "None" -> 0 [] d = "Left" -> 1 [] d = "Up" -> 2 [] d = "Right" -> 3 [] d = "Down" -> 4

\* Coordinates stay within -1..98 in every arena explored.
BundleKey(b) ==
    ((KindRank(b.kind) * 100 + (b.pos.x + 1)) * 100 + (b.pos.y + 1)) * 5 + DirRank(b.dir)

NameOf(w, segs, e) ==
    IF e \in Range(segs)
    THEN CHOOSE i \in 1..Len(segs) : segs[i] = e
    ELSE Len(segs)
         + Cardinality({ f \in DOMAIN w \ Range(segs) :
                           \/ BundleKey(w[f]) < BundleKey(w[e])
                           \/ BundleKey(w[f]) = BundleKey(w[e]) /\ f <= e })

Nameable(w, segs) ==
    /\ Range(segs) \subseteq DOMAIN w
    /\ Cardinality(Range(segs)) = Len(segs)

RenamedWorld(w, segs) ==
    IF Nameable(w, segs)
    THEN [n \in 1..Cardinality(DOMAIN w) |->
            w[CHOOSE e \in DOMAIN w : NameOf(w, segs, e) = n]]
    ELSE w

RenamedSegments(w, segs) ==
    IF Nameable(w, segs) THEN [i \in 1..Len(segs) |-> i] ELSE segs

(***************************************************************************)
(* spawn_snake (main.rs:81-97), spawn_segment (main.rs:99-109)             *)
(***************************************************************************)
StartHead == Position(3, 3)
StartSegment == Position(3, 2)

\* spawn_snake with the head stored behind the segment.
spawn_snake_head_last(w, c) ==
    LET h == NewEntity(w, c)
        c1 == Spawn(c, h, HeadBundle(StartHead, "Up"))
        s == NewEntity(w, c1)
        c2 == Spawn(c1, s, SegmentBundle(StartSegment))
    IN  [segments |-> << s, h >>, commands |-> c2]

\* spawn_snake with the two positions exchanged.
spawn_snake_exchanged(w, c) ==
    LET h == NewEntity(w, c)
        c1 == Spawn(c, h, HeadBundle(StartSegment, "Up"))
        s == NewEntity(w, c1)
        c2 == Spawn(c1, s, SegmentBundle(StartHead))
    IN  [segments |-> << h, s >>, commands |-> c2]

\* The new value of SnakeSegments and the commands after spawn_snake.
spawn_snake(w, c) ==
    LET h == NewEntity(w, c)
        c1 == Spawn(c, h, HeadBundle(StartHead, "Up"))
        s == NewEntity(w, c1)
        c2 == Spawn(c1, s, SegmentBundle(StartSegment))
    IN  [segments |-> << h, s >>, commands |-> c2]

(***************************************************************************)
(* Schedules                                                               *)
(***************************************************************************)
UpdateSystems ==
    { "snake_movement_input", "snake_eating", "apply_deferred", "snake_growth", "game_over" }

FixedSystems(food) ==
    IF food THEN { "snake_movement", "food_spawner" } ELSE { "snake_movement" }

\* No system that is still to run in Update would change anything: no key
\* is to be latched, no food lies under a head, no message is unread and no
\* command is queued for the sync point.  Their runs, in whatever order,
\* leave the state as it is, and end_update passes over them.
Quiet ==
    /\ schedule = "Update"
    /\ "snake_movement_input" \notin todo
    /\ "snake_eating" \in todo =>
          ~(\E head \in WithSnakeHead(world), ent \in WithFood(world) :
                world[ent].pos = world[head].pos)
    /\ "apply_deferred" \in todo => commands = NoCommands
    /\ "snake_growth" \in todo => growth_events = 0
    /\ "game_over" \in todo => game_over_events = 0

Runs(sched, system) ==
    /\ ~panicked
    /\ schedule = sched
    /\ ~Quiet
    /\ system \in todo
    /\ todo' = todo \ { system }
    /\ UNCHANGED << schedule, frame, food_due, keyboard_input >>

\* The state after the Startup schedule (main.rs:309-313): spawn_snake has
\* run and its commands are applied; the head looks in direction d.
Started(d, keys) ==
    /\ LET fresh == spawn_snake(NoEntities, NoCommands)
           w == Applied(NoEntities, fresh.commands)
           head == fresh.segments[1]
       IN  /\ world = RenamedWorld([w EXCEPT ![head].dir = d], fresh.segments)
           /\ segments = RenamedSegments(w, fresh.segments)
    /\ keyboard_input = keys
    /\ last_tail_position = << >>
    /\ growth_events = 0
    /\ game_over_events = 0
    /\ commands = NoCommands
    /\ schedule = "Update"
    /\ todo = UpdateSystems
    /\ frame = 1
    /\ food_due = FALSE
    /\ panicked = FALSE
    /\ pre = << >>
    /\ raised = {}
    /\ resets = 0
    /\ eaten = 0
    /\ grown = 0
    /\ moves = 0

Init == Started("Up", {})

(***************************************************************************)
(* snake_movement_input (main.rs:111-133)                                  *)
(***************************************************************************)
\* The if-chain with ArrowUp tested before ArrowDown.
pressed_direction_up_first(keys, current) ==
    IF "ArrowLeft" \in keys THEN "Left"
    ELSE IF "ArrowRight" \in keys THEN "Right"
    ELSE IF "ArrowUp" \in keys THEN "Up"
    ELSE IF "ArrowDown" \in keys THEN "Down"
    ELSE current

\* The candidate direction of the if-chain.
pressed_direction(keys, current) ==
    IF "ArrowLeft" \in keys THEN "Left"
    ELSE IF "ArrowRight" \in keys THEN "Right"
    ELSE IF "ArrowDown" \in keys THEN "Down"
    ELSE IF "ArrowUp" \in keys THEN "Up"
    ELSE current

\* The latch without the test against the opposite direction.
latched_direction_unchecked(keys, current) == pressed_direction(keys, current)

latched_direction(keys, current) ==
    LET dir == pressed_direction(keys, current)
    IN  IF dir # opposite(current) THEN dir ELSE current

snake_movement_input(keysets) ==
    /\ Runs("Update", "snake_movement_input")
    /\ \E keys \in keysets :
          IF WithSnakeHead(world) = {}
          THEN UNCHANGED world
          ELSE \E head \in WithSnakeHead(world) :
                  world' = [world EXCEPT ![head].dir = latched_direction(keys, @)]
    /\ UNCHANGED << segments, last_tail_position, growth_events, game_over_events,
                    commands, panicked, history >>

(***************************************************************************)
(* snake_movement (main.rs:135-180)                                        *)
(***************************************************************************)
moved(p, d) ==
    CASE d = "Left" -> Position(p.x - 1, p.y)
      [] d = "Right" -> Position(p.x + 1, p.y)
      [] d = "Up" -> Position(p.x, p.y + 1)
      [] d = "Down" -> Position(p.x, p.y - 1)

\* The boundary check that also rejects the outermost cells of the arena.
out_of_arena_early(p, w, h) == p.x < 1 \/ p.y < 1 \/ p.x >= w - 1 \/ p.y >= h - 1

\* The boundary check with > where the program has >=.
out_of_arena_off_by_one(p, w, h) == p.x < 0 \/ p.y < 0 \/ p.x > w \/ p.y > h

out_of_arena(p, w, h) == p.x < 0 \/ p.y < 0 \/ p.x >= w \/ p.y >= h

\* The checks with the self-collision test made against the positions the
\* segments hold after the shift (segment i+1 on the old cell of segment i).
game_over_checks_post_move(head_pos, segment_positions, w, h) ==
    (IF out_of_arena(head_pos, w, h) THEN { "Boundary" } ELSE {})
    \cup (IF \E i \in 1..(Len(segment_positions) - 1) : segment_positions[i] = head_pos
          THEN { "SelfCollision" } ELSE {})

\* The GameOverEvents one movement writes: the checks of main.rs:162-171.
game_over_checks(head_pos, segment_positions, w, h) ==
    (IF out_of_arena(head_pos, w, h) THEN { "Boundary" } ELSE {})
    \cup (IF head_pos \in Range(segment_positions) THEN { "SelfCollision" } ELSE {})

\* The shift done in place from the head down, each segment taking the
\* position its predecessor has already moved to.
shifted_in_place(w, head, head_pos, segment_positions) ==
    [e \in DOMAIN w |->
        IF e \in Range(segments) \/ e = head THEN [w[e] EXCEPT !.pos = head_pos] ELSE w[e]]

\* The zip of main.rs:172-177: segment i+1 takes the snapshot of segment i.
shifted(w, head, head_pos, segment_positions) ==
    [e \in DOMAIN w |->
        IF \E i \in 2..Len(segments) : segments[i] = e
        THEN LET i == CHOOSE j \in 2..Len(segments) :
                         segments[j] = e /\ \A k \in (j + 1)..Len(segments) : segments[k] # e
             IN  [w[e] EXCEPT !.pos = segment_positions[i - 1]]
        ELSE IF e = head THEN [w[e] EXCEPT !.pos = head_pos]
        ELSE w[e]]

\* The record taken from the head's old cell instead of the tail's.
last_is_first(segment_positions) == segment_positions[1]

\* segment_positions.last().unwrap() of main.rs:178.
last(segment_positions) == segment_positions[Len(segment_positions)]

snake_movement(w, h) ==
    /\ schedule = "FixedUpdate"
    /\ "snake_movement" \in todo
    /\ ~panicked
    /\ todo' = todo \ { "snake_movement" }
    /\ UNCHANGED << schedule, frame, food_due, keyboard_input, segments,
                    growth_events, commands >>
    /\ IF WithSnakeHead(world) = {}
       THEN UNCHANGED << world, last_tail_position, game_over_events, panicked, history >>
       ELSE IF segments = << >> \/ ~(Range(segments) \subseteq DOMAIN world)
       THEN /\ panicked' = TRUE
            /\ UNCHANGED << world, last_tail_position, game_over_events, history >>
       ELSE \E head \in WithSnakeHead(world) :
               LET segment_positions == [i \in 1..Len(segments) |-> world[segments[i]].pos]
                   head_pos == moved(world[head].pos, world[head].dir)
                   written == game_over_checks(head_pos, segment_positions, w, h)
               IN  /\ game_over_events' = game_over_events + Cardinality(written)
                   /\ world' = shifted(world, head, head_pos, segment_positions)
                   /\ last_tail_position' = << last(segment_positions) >>
                   /\ pre' = segment_positions
                   /\ raised' = written
                   /\ resets' = 0
                   /\ eaten' = 0
                   /\ grown' = 0
                   /\ moves' = IF moves < MaxMoves THEN moves + 1 ELSE moves
                   /\ UNCHANGED panicked

(***************************************************************************)
(* food_spawner (main.rs:226-254)                                          *)
(***************************************************************************)
in_arena(p, w, h) == p.x \in 0..(w - 1) /\ p.y \in 0..(h - 1)

FoodItems == Cardinality(WithFood(world))
              + Cardinality({ e \in DOMAIN commands.spawn : commands.spawn[e].kind = "Food" })

\* What random() may give: a free cell of FoodCells while the bounds allow
\* one more food item, and any cell of the arena under the snake.
random_positions(w, h) ==
    { p \in FoodCells : /\ in_arena(p, w, h)
                        /\ FoodItems < MaxFood
                        /\ Len(segments) + FoodItems + growth_events < MaxLen }
    \cup { p \in { world[e].pos : e \in Range(segments) \cap DOMAIN world } : in_arena(p, w, h) }

food_spawner(w, h) ==
    /\ schedule = "FixedUpdate"
    /\ "food_spawner" \in todo
    /\ ~panicked
    /\ todo' = todo \ { "food_spawner" }
    /\ UNCHANGED << schedule, frame, food_due, keyboard_input, world, segments,
                    last_tail_position, growth_events, game_over_events, history >>
    /\ IF ~(Range(segments) \subseteq DOMAIN world)
       THEN panicked' = TRUE /\ UNCHANGED commands
       ELSE \E food_position \in random_positions(w, h) :
               /\ UNCHANGED panicked
               /\ IF ~(\E i \in 1..Len(segments) : world[segments[i]].pos = food_position)
                  THEN commands' = Spawn(commands, NewEntity(world, commands),
                                         FoodBundle(food_position))
                  ELSE UNCHANGED commands

(***************************************************************************)
(* snake_eating (main.rs:256-270)                                          *)
(***************************************************************************)
snake_eating ==
    /\ Runs("Update", "snake_eating")
    /\ "snake_movement_input" \notin todo
    /\ LET hit == { ent \in WithFood(world) :
                      \E head \in WithSnakeHead(world) : world[ent].pos = world[head].pos }
           \* one despawn and one GrowthEvent per (head, food) pair that matches
           pairs == { pr \in WithSnakeHead(world) \X WithFood(world) :
                        world[pr[2]].pos = world[pr[1]].pos }
       IN  /\ commands' = Despawn(commands, hit)
           /\ growth_events' = growth_events + Cardinality(pairs)
           /\ eaten' = eaten + Cardinality(hit)
    /\ UNCHANGED << world, segments, last_tail_position, game_over_events, panicked,
                    pre, raised, resets, grown, moves >>

(***************************************************************************)
(* snake_growth (main.rs:272-281)                                          *)
(***************************************************************************)
snake_growth ==
    /\ Runs("Update", "snake_growth")
    /\ "apply_deferred" \notin todo
    /\ UNCHANGED << world, last_tail_position, game_over_events,
                    pre, raised, resets, eaten, moves >>
    /\ IF growth_events > 0
       THEN \* read().next(): one message is read, the rest stays unread
            /\ growth_events' = growth_events - 1
            /\ IF last_tail_position = << >>
               THEN panicked' = TRUE /\ UNCHANGED << segments, commands, grown >>
               ELSE LET e == NewEntity(world, commands)
                    IN  /\ commands' = Spawn(commands, e, SegmentBundle(last_tail_position[1]))
                        /\ segments' = Append(segments, e)
                        /\ grown' = grown + 1
                        /\ UNCHANGED panicked
       ELSE UNCHANGED << growth_events, segments, commands, grown, panicked >>

(***************************************************************************)
(* game_over (main.rs:283-296)                                             *)
(***************************************************************************)
game_over ==
    /\ Runs("Update", "game_over")
    /\ "snake_movement_input" \notin todo
    /\ UNCHANGED << world, last_tail_position, growth_events, panicked,
                    pre, raised, eaten, grown, moves >>
    /\ IF game_over_events > 0
       THEN LET c == Despawn(commands, WithFood(world) \cup WithSnakeSegment(world))
                fresh == spawn_snake(world, c)
            IN  /\ game_over_events' = game_over_events - 1
                /\ commands' = fresh.commands
                /\ segments' = fresh.segments
                /\ resets' = resets + 1
       ELSE UNCHANGED << game_over_events, commands, segments, resets >>

(***************************************************************************)
(* Command application and the frame loop (main.rs:313-324)                *)
(***************************************************************************)
\* The sync point between snake_eating and snake_growth.
apply_deferred ==
    /\ Runs("Update", "apply_deferred")
    /\ "snake_eating" \notin todo
    /\ world' = RenamedWorld(Applied(world, commands), segments)
    /\ segments' = RenamedSegments(Applied(world, commands), segments)
    /\ commands' = NoCommands
    /\ UNCHANGED << last_tail_position, growth_events, game_over_events,
                    panicked, history >>

\* FixedUpdate ends: its commands are applied, Update starts.
end_fixed_update ==
    /\ ~panicked
    /\ schedule = "FixedUpdate"
    /\ todo = {}
    /\ world' = RenamedWorld(Applied(world, commands), segments)
    /\ segments' = RenamedSegments(Applied(world, commands), segments)
    /\ commands' = NoCommands
    /\ schedule' = "Update"
    /\ todo' = UpdateSystems
    /\ UNCHANGED << last_tail_position, growth_events, game_over_events,
                    frame, food_due, panicked, keyboard_input, history >>

\* Update ends: its commands are applied and the next frame starts, with a
\* movement tick or without one.  Messages live for two message updates; an
\* update happens at the start of a frame that follows a frame with a fixed
\* step, so messages written in a tick frame are readable in the frame after
\* it, may be dropped from the second frame on and are dropped before the
\* next tick frame's systems run.
end_update ==
    /\ ~panicked
    /\ Quiet
    /\ world' = RenamedWorld(Applied(world, commands), segments)
    /\ segments' = RenamedSegments(Applied(world, commands), segments)
    /\ commands' = NoCommands
    /\ UNCHANGED << last_tail_position, panicked, keyboard_input, history >>
    /\ \/ /\ frame = 0
          /\ frame' = 1
          /\ schedule' = "Update"
          /\ todo' = UpdateSystems
          /\ UNCHANGED << growth_events, game_over_events, food_due >>
       \/ /\ frame = 1
          /\ frame' = 1
          /\ schedule' = "Update"
          /\ todo' = UpdateSystems
          /\ UNCHANGED food_due
          /\ \/ UNCHANGED << growth_events, game_over_events >>
             \/ /\ growth_events + game_over_events > 0
                /\ growth_events' = 0
                /\ game_over_events' = 0
       \/ /\ frame = 1
          /\ frame' = 0
          /\ schedule' = "FixedUpdate"
          /\ todo' = FixedSystems(food_due)
          /\ food_due' = ~food_due
          /\ growth_events' = 0
          /\ game_over_events' = 0

\* The systems apart from snake_movement_input, in an arena of w x h cells.
Systems(w, h) ==
    \/ snake_movement(w, h)
    \/ food_spawner(w, h)
    \/ snake_eating
    \/ apply_deferred
    \/ snake_growth
    \/ game_over
    \/ end_fixed_update
    \/ end_update

Frame(w, h, keysets) == snake_movement_input(keysets) \/ Systems(w, h)

Next == Frame(ArenaW, ArenaH, SUBSET KeyCode)

Spec == Init /\ [][Next]_vars

\* The program's own 20 x 20 arena, with ArrowUp held down all the time.
NextArena == Frame(ARENA_WIDTH, ARENA_HEIGHT, { { "ArrowUp" } })

SpecArena == Init /\ [][NextArena]_vars

(***************************************************************************)
(* The game for every direction of the head at the start (each of them is  *)
(* reached from Up by key presses before the first movement tick) and      *)
(* every set of keys, which the player then holds down for the whole run.  *)
(* Spec and SpecArena hand the keys to each run of snake_movement_input as *)
(* an input that is not kept in the state; here keyboard_input holds them, *)
(* so that a property can speak about the keys a run has seen.             *)
(***************************************************************************)
InitLatch == \E d \in Direction, keys \in SUBSET KeyCode : Started(d, keys)

NextLatch == snake_movement_input({ keyboard_input }) \/ Systems(ArenaW, ArenaH)

SpecLatch == InitLatch /\ [][NextLatch]_vars

(***************************************************************************)
(* The 20 x 20 arena again, where a movement tick that ends the game       *)
(* writes its GameOverEvent a second time: two signals in one tick, which  *)
(* the two checks of snake_movement never produce together (a head that    *)
(* steps out of the arena is on no cell a segment held).                   *)
(***************************************************************************)
duplicate_game_over ==
    /\ ~panicked
    /\ schedule = "FixedUpdate"
    /\ "snake_movement" \notin todo
    /\ raised # {}
    /\ game_over_events = 1
    /\ game_over_events' = 2
    /\ UNCHANGED << world, segments, last_tail_position, growth_events, commands,
                    schedule, todo, frame, food_due, panicked, keyboard_input, history >>

NextDuplicate == NextArena \/ duplicate_game_over

SpecDuplicate == Init /\ [][NextDuplicate]_vars

(***************************************************************************)
(* The 20 x 20 arena where a GrowthEvent is written before the first       *)
(* movement tick, while LastTailPosition is still None.  The program       *)
(* itself writes a GrowthEvent only in snake_eating, for food that the     *)
(* 1 s timer spawned after the first 500 ms tick had set the record.       *)
(***************************************************************************)
stray_growth_event ==
    /\ ~panicked
    /\ schedule = "Update"
    /\ "snake_growth" \in todo
    /\ last_tail_position = << >>
    /\ growth_events = 0
    /\ growth_events' = 1
    /\ UNCHANGED << world, segments, last_tail_position, game_over_events, commands,
                    schedule, todo, frame, food_due, panicked, keyboard_input, history >>

NextStray == NextArena \/ stray_growth_event

SpecStray == Init /\ [][NextStray]_vars

(***************************************************************************)
(* Vocabulary of the properties                                            *)
(***************************************************************************)
\* snake_movement has run in this frame and the frame's Update has not begun.
AfterMove == schedule = "FixedUpdate" /\ "snake_movement" \notin todo

\* No movement tick is under way: what the last tick caused has been handled
\* in the tick's own frame, and the next tick has not moved the snake yet.
TickSettled == frame = 1 \/ (schedule = "FixedUpdate" /\ "snake_movement" \in todo)

BodyLive == segments # << >> /\ Range(segments) \subseteq DOMAIN world

HeadPos == world[segments[1]].pos

InsideSpecArena(p) == 0 <= p.x /\ p.x < ArenaW /\ 0 <= p.y /\ p.y < ArenaH

\* The body is the head at (3,3) followed by one segment at (3,2), and no
\* other snake segment is alive.
StartBodyIn(w, segs) ==
    /\ Len(segs) = 2
    /\ Range(segs) \subseteq DOMAIN w
    /\ w[segs[1]].kind = "SnakeHead" /\ w[segs[1]].pos = Position(3, 3)
    /\ w[segs[2]].kind = "SnakeSegment" /\ w[segs[2]].pos = Position(3, 2)
    /\ WithSnakeSegment(w) = Range(segs)

\* A flush that brings a snake spawned by game_over to life.
ResetApplied ==
    /\ resets > 0
    /\ \E e \in DOMAIN commands.spawn : commands.spawn[e].kind = "SnakeHead"
    /\ commands' = NoCommands

(***************************************************************************)
(* C1  Boundary collision resets the game.  A movement tick whose new head *)
(* position is outside the arena (x < 0, y < 0, x >= width or y >= height) *)
(* raises the Boundary signal; the game is reset exactly once in that      *)
(* tick's frame, hence before the next movement tick; the reset brings to  *)
(* life exactly the initial body, head (3,3) looking Up and one segment at *)
(* (3,2), and that is the body until the next tick moves it.               *)
(***************************************************************************)
C1_BoundaryRaised ==
    (AfterMove /\ BodyLive /\ ~InsideSpecArena(HeadPos))
        => ("Boundary" \in raised /\ game_over_events >= 1)

C1_BoundaryHandled ==
    ("Boundary" \in raised /\ TickSettled)
        => (resets = 1 /\ game_over_events = 0 /\ StartBodyIn(world, segments))

C1_BoundaryRestart ==
    ("Boundary" \in raised /\ ResetApplied)
        => (StartBodyIn(world', segments') /\ world'[segments'[1]].dir = "Up")

C1_BoundaryReset ==
    /\ [](C1_BoundaryRaised /\ C1_BoundaryHandled)
    /\ [][C1_BoundaryRestart]_vars

\* C1 witness: the head left the arena through the right wall and the game
\* has been reset.
C1_Witness ==
    /\ "Boundary" \in raised
    /\ pre # << >> /\ pre[1].x = ArenaW - 1
    /\ frame = 1
    /\ resets = 1
    /\ StartBodyIn(world, segments)

(***************************************************************************)
(* C2  Self-collision is tested against the pre-move snapshot.  A movement *)
(* tick raises the SelfCollision signal exactly when the new head position *)
(* equals a position some segment held before the tick (the old head cell  *)
(* and the old tail cell included), never on account of positions taken in *)
(* the shift; the game is then reset in that tick's frame: the body starts *)
(* again with the head at (3,3) followed by a segment at (3,2).            *)
(***************************************************************************)
C2_SelfCollision ==
    /\ (AfterMove /\ BodyLive /\ pre # << >>) =>
          /\ ("SelfCollision" \in raised) <=> (HeadPos \in Range(pre))
          /\ ("SelfCollision" \in raised) => game_over_events >= 1
    /\ ("SelfCollision" \in raised /\ TickSettled) =>
          /\ resets = 1
          /\ game_over_events = 0
          /\ BodyLive
          /\ Len(segments) >= 2
          /\ world[segments[1]].kind = "SnakeHead" /\ HeadPos = Position(3, 3)
          /\ world[segments[2]].pos = Position(3, 2)

\* C2 witness: a snake of four segments turned onto the cell its tail held
\* before the move (the tail has left it in the same tick), and the signal
\* was raised.
C2_Witness ==
    /\ AfterMove
    /\ Len(pre) = 4
    /\ HeadPos = pre[4]
    /\ HeadPos \notin { world[segments[i]].pos : i \in 2..Len(segments) }
    /\ raised = { "SelfCollision" }
    /\ game_over_events = 1

(***************************************************************************)
(* C3  No direct reversal in the input latch.  For every current direction *)
(* d and every set of keys held down, one run of snake_movement_input      *)
(* never leaves the head with d.opposite(); when the candidate the keys    *)
(* select is d.opposite(), the direction stays exactly d.                  *)
(***************************************************************************)
LatchRuns ==
    /\ schedule = "Update"
    /\ "snake_movement_input" \in todo
    /\ "snake_movement_input" \notin todo'
    /\ BodyLive

C3_Latch ==
    LatchRuns =>
        LET d == world[segments[1]].dir
            after == world'[segments[1]].dir
        IN  /\ after # opposite(d)
            /\ pressed_direction(keyboard_input, d) = opposite(d) => after = d

C3_NoReversal == [][C3_Latch]_vars

\* C3 witness: with only ArrowLeft held the latch has run and the head looks
\* Right; it looked Right before, as the latch turns Up, Down and Left to Left.
C3_Witness ==
    /\ keyboard_input = { "ArrowLeft" }
    /\ schedule = "Update"
    /\ "snake_movement_input" \notin todo
    /\ BodyLive
    /\ world[segments[1]].dir = "Right"

(***************************************************************************)
(* C4  Shift correctness.  For every body of length n >= 2 whose pre-move  *)
(* positions are p[1..n] and whose head looks in direction d, one movement *)
(* tick leaves the head at p[1] + offset(d) and segment i (2 <= i <= n) at *)
(* p[i-1]; the body list and its length do not change.                     *)
(***************************************************************************)
offset(d) ==
    CASE d = "Left" -> << -1, 0 >>
      [] d = "Right" -> << 1, 0 >>
      [] d = "Up" -> << 0, 1 >>
      [] d = "Down" -> << 0, -1 >>

MoveRuns ==
    /\ schedule = "FixedUpdate"
    /\ "snake_movement" \in todo
    /\ "snake_movement" \notin todo'

C4_Shift ==
    (MoveRuns /\ Len(segments) >= 2) =>
        LET n == Len(segments)
            d == world[segments[1]].dir
        IN  /\ segments' = segments
            /\ DOMAIN world' = DOMAIN world
            /\ world'[segments[1]].pos.x = world[segments[1]].pos.x + offset(d)[1]
            /\ world'[segments[1]].pos.y = world[segments[1]].pos.y + offset(d)[2]
            /\ \A i \in 2..n : world'[segments[i]].pos = world[segments[i - 1]].pos
            /\ \A e \in DOMAIN world \ Range(segments) : world'[e] = world[e]

C4_ShiftCorrect == [][C4_Shift]_vars

\* C4 witness: a body of three segments has just moved Up without a signal,
\* each segment now on the cell the one before it held.
C4_Witness ==
    /\ AfterMove
    /\ Len(segments) = 3 /\ Len(pre) = 3
    /\ BodyLive
    /\ world[segments[1]].dir = "Up"
    /\ HeadPos = Position(pre[1].x, pre[1].y + 1)
    /\ world[segments[2]].pos = pre[1]
    /\ world[segments[3]].pos = pre[2]
    /\ raised = {}

(***************************************************************************)
(* C5  Growth placement.  When a movement tick has put the head on food    *)
(* and the food is eaten, snake_growth appends a segment in that frame. A  *)
(* run of snake_growth that reads a growth signal appends exactly one new  *)
(* segment at the end of the body, at LastTailPosition, which is the       *)
(* position the tail held before the triggering move: the body is longer   *)
(* by exactly 1 and no other segment's position changes.                   *)
(***************************************************************************)
GrowthRuns ==
    /\ schedule = "Update"
    /\ "snake_growth" \in todo
    /\ "snake_growth" \notin todo'
    /\ growth_events > 0

C5_Growth ==
    GrowthRuns =>
        LET n == Len(segments)
            e == segments'[n + 1]
        IN  /\ Len(segments') = n + 1
            /\ SubSeq(segments', 1, n) = segments
            /\ e \notin DOMAIN world \cup DOMAIN commands.spawn
            /\ DOMAIN commands'.spawn = DOMAIN commands.spawn \cup { e }
            /\ commands'.spawn[e].kind = "SnakeSegment"
            /\ commands'.spawn[e].pos = pre[Len(pre)]
            /\ last_tail_position = << pre[Len(pre)] >>
            /\ \A f \in DOMAIN commands.spawn : commands'.spawn[f] = commands.spawn[f]
            /\ commands'.despawn = commands.despawn
            /\ world' = world

QueuedFood == { e \in DOMAIN commands.spawn : commands.spawn[e].kind = "Food" }

C6_FoodExclusion ==
    (schedule = "FixedUpdate" /\ todo = {}) =>
        \A e \in QueuedFood : \A s \in WithSnakeSegment(world) \ commands.despawn :
            commands.spawn[e].pos # world[s].pos

(***************************************************************************)
(* C7  At most one food.  In every reachable state at most one food item   *)
(* exists.                                                                 *)
(***************************************************************************)
C7_AtMostOneFood == Cardinality(WithFood(world)) <= 1

StraightRun(x, y) ==
    moves <= 5 =>
        /\ Len(segments) >= 2
        /\ { segments[1], segments[2] } \subseteq DOMAIN world
        /\ world[segments[1]].kind = "SnakeHead"
        /\ world[segments[1]].dir = "Up"
        /\ world[segments[1]].pos = Position(x, y + moves)
        /\ world[segments[2]].pos = Position(x, y + moves - 1)
        /\ raised = {}
        /\ game_over_events = 0
        /\ resets = 0

C9_StraightRunFrom10 == StraightRun(10, 10)

\* C9 as the program has it: the run starts from the head at (3,3) and the
\* segment at (3,2); 5 ticks leave the head at (3,8) and that segment at
\* (3,7), the segment one step behind the head after every tick, with no
\* GameOverSignal and no reset.
C9_StraightRunFrom3 == StraightRun(3, 3)

\* C9 witness: five ticks done, head at (3,8), the segment behind it at (3,7).
C9_Witness ==
    /\ moves = 5
    /\ frame = 1
    /\ raised = {}
    /\ BodyLive
    /\ HeadPos = Position(3, 8)
    /\ world[segments[2]].pos = Position(3, 7)
    /\ resets = 0

(***************************************************************************)
(* C10  Invariant I4.  No existing food item is at a position held by a    *)
(* snake segment.  Stated where every frame's work is done (a head that a  *)
(* movement tick has put on food has eaten it by then): at the start of a  *)
(* frame that follows a tick's frame, no food lies under a segment.        *)
(***************************************************************************)
FrameStart == schedule = "Update" /\ todo = UpdateSystems /\ frame = 1

C10_FoodNeverUnderSnake ==
    FrameStart =>
        \A f \in WithFood(world), s \in WithSnakeSegment(world) : world[f].pos # world[s].pos

(***************************************************************************)
(* C11  Invariant I2.  After every completed movement tick that raised no  *)
(* GameOverSignal, all segments of the body are at pairwise distinct       *)
(* positions.                                                              *)
(***************************************************************************)
C11_DistinctAfterMove ==
    (AfterMove /\ raised = {} /\ BodyLive) =>
        \A i, j \in 1..Len(segments) :
            i # j => world[segments[i]].pos # world[segments[j]].pos

(***************************************************************************)
(* C12  Invariant I1.  The body sequence is never empty, and its first     *)
(* element is the head: a live entity with SnakeHead that no queued        *)
(* command despawns or, from the run of game_over to the application of    *)
(* its commands, the entity whose spawn with SnakeHead is queued.  When no *)
(* command is queued, that entity is the only head alive.                  *)
(***************************************************************************)
C12_BodyNeverEmpty ==
    /\ Len(segments) >= 1
    /\ IF segments[1] \in DOMAIN commands.spawn
       THEN commands.spawn[segments[1]].kind = "SnakeHead"
       ELSE /\ segments[1] \in WithSnakeHead(world)
            /\ segments[1] \notin commands.despawn
    /\ commands = NoCommands => WithSnakeHead(world) = { segments[1] }

\* C12 witness: game_over has run after a grown snake hit the wall; the body
\* sequence is the queued head and segment while the old body is still alive.
C12_Witness ==
    /\ resets = 1
    /\ Len(pre) = 3
    /\ Len(segments) = 2
    /\ segments[1] \in DOMAIN commands.spawn
    /\ commands.spawn[segments[1]].kind = "SnakeHead"
    /\ Cardinality(WithSnakeSegment(world)) = 3

(***************************************************************************)
(* C13  Game over supersedes growth.  When the movement of a tick raised a *)
(* GameOverSignal, snake_growth appends no segment for that tick, and once *)
(* the tick's frame is done the state is the reset state: exactly two      *)
(* segments in the body sequence and every live segment in it.             *)
(***************************************************************************)
C13_GameOverSupersedesGrowth ==
    (raised # {} /\ TickSettled) =>
        /\ grown = 0
        /\ Len(segments) = 2
        /\ WithSnakeSegment(world) = Range(segments)

(***************************************************************************)
(* C14  Input priority.  For every set of keys held down, the candidate of *)
(* the latch is the direction of the first key held in the order Left,     *)
(* Right, Down, Up, and the current direction when no key is held; a run   *)
(* of snake_movement_input latches the candidate unless it is the opposite *)
(* of the current direction, and with no key held it leaves the direction  *)
(* unchanged.                                                              *)
(***************************************************************************)
PriorityOrder == << "Left", "Right", "Down", "Up" >>

KeyOf(d) == "Arrow" \o d

FirstHeld(keys, current) ==
    IF \E i \in 1..4 : KeyOf(PriorityOrder[i]) \in keys
    THEN PriorityOrder[CHOOSE i \in 1..4 :
                          /\ KeyOf(PriorityOrder[i]) \in keys
                          /\ \A j \in 1..(i - 1) : KeyOf(PriorityOrder[j]) \notin keys]
    ELSE current

C14_Latch ==
    LatchRuns =>
        LET d == world[segments[1]].dir
            after == world'[segments[1]].dir
            candidate == FirstHeld(keyboard_input, d)
        IN  /\ pressed_direction(keyboard_input, d) = candidate
            /\ after = IF candidate = opposite(d) THEN d ELSE candidate
            /\ keyboard_input = {} => after = d

C14_InputPriority == [][C14_Latch]_vars

\* C14 witness: ArrowDown and ArrowUp are both held, the latch has run and
\* the head looks Down (it did not look Up before, or it would still).
C14_Witness ==
    /\ keyboard_input = { "ArrowDown", "ArrowUp" }
    /\ schedule = "Update"
    /\ "snake_movement_input" \notin todo
    /\ BodyLive
    /\ world[segments[1]].dir = "Down"

(***************************************************************************)
(* C15  Reset effect.  Once the commands of a reset are applied, no food   *)
(* exists and no segment that is not of the fresh body is alive: the reset *)
(* destroys every segment and every food item of the previous life and     *)
(* leaves the fresh head and segment only.                                 *)
(***************************************************************************)
C15_ResetEffect ==
    (resets > 0 /\ commands = NoCommands) =>
        /\ WithFood(world) = {}
        /\ WithSnakeSegment(world) \subseteq Range(segments)
        /\ { segments[1], segments[2] } \subseteq DOMAIN world
        /\ world[segments[1]].kind = "SnakeHead"
        /\ world[segments[1]].pos = Position(3, 3)
        /\ world[segments[2]].pos = Position(3, 2)

C17_AtMostOneEating ==
    /\ eaten <= 1
    /\ growth_events <= 1
    /\ grown <= 1

(***************************************************************************)
(* C18  No effective reversal between moves.  Within one life (no reset    *)
(* since the previous movement tick), the direction a movement tick        *)
(* applies is never the opposite of the direction the previous tick        *)
(* applied, whatever runs of the input latch lie between the two ticks.    *)
(* The previous tick took the head from pre[1] to where it is now.         *)
(***************************************************************************)
C18_Move ==
    (MoveRuns /\ BodyLive /\ pre # << >> /\ resets = 0) =>
        LET previous == << HeadPos.x - pre[1].x, HeadPos.y - pre[1].y >>
            applied == offset(world[segments[1]].dir)
        IN  applied # << 0 - previous[1], 0 - previous[2] >>

C18_NoEffectiveReversal == [][C18_Move]_vars

(***************************************************************************)
(* C19  Body contiguity.  In every reachable state outside a pending reset *)
(* (no GameOverSignal unread, no command queued, every segment alive),     *)
(* every two consecutive segments of the body sequence are at Manhattan    *)
(* distance exactly 1.                                                     *)
(***************************************************************************)
Abs(n) == IF n < 0 THEN 0 - n ELSE n

Manhattan(p, q) == Abs(p.x - q.x) + Abs(p.y - q.y)

C19_Contiguous ==
    (BodyLive /\ game_over_events = 0 /\ commands = NoCommands) =>
        \A i \in 1..(Len(segments) - 1) :
            Manhattan(world[segments[i]].pos, world[segments[i + 1]].pos) = 1

(***************************************************************************)
(* C20  No spurious reset.  A movement tick raises a GameOverSignal        *)
(* exactly when its new head is outside the arena or on a position a       *)
(* segment held before the move; a tick whose new head is in bounds and    *)
(* on none of these raises none.  No step other than snake_movement writes *)
(* a GameOverSignal, and a reset is performed only for a signal of the     *)
(* most recent movement tick.                                              *)
(***************************************************************************)
C20_SignalsOfTheTick ==
    /\ (AfterMove /\ BodyLive /\ pre # << >>) =>
          /\ (raised # {}) <=> (~InsideSpecArena(HeadPos) \/ HeadPos \in Range(pre))
          /\ game_over_events = Cardinality(raised)
    /\ resets + game_over_events <= Cardinality(raised)

C20_OnlyMovementWrites == ~MoveRuns => game_over_events' <= game_over_events

C20_NoSpuriousReset ==
    /\ []C20_SignalsOfTheTick
    /\ [][C20_OnlyMovementWrites]_vars

\* C20 witness: a snake of three segments has moved along the right wall,
\* in bounds and onto no cell of its body: no signal, no reset.
C20_Witness ==
    /\ AfterMove
    /\ BodyLive
    /\ Len(pre) = 3
    /\ HeadPos.x = ArenaW - 1
    /\ pre[1].x = ArenaW - 1
    /\ HeadPos \notin Range(pre)
    /\ raised = {}
    /\ game_over_events = 0
    /\ resets = 0

====
